---- MODULE Spec2Model ----
(***************************************************************************)
(* Model of streamlit_app.py: the World Bank PM2.5 fetcher                 *)
(* (fetch_worldbank_pm25), the loader with its CSV cache fallback          *)
(* (load_data_with_fallback) and the ranking and trend views computed in   *)
(* main.                                                                   *)
(***************************************************************************)
EXTENDS Integers, Sequences, FiniteSets, TLC

VARIABLES
    data,        \* resp.json(): the decoded response envelope handed to the fetcher
    fetched,     \* what fetch_worldbank_pm25 did with data: a table or an exception
    memo,        \* st.cache_data store of fetch_worldbank_pm25, keyed by start_year
    cacheFile,   \* CACHE_FILE on disk: whether it exists and its lines
    call,        \* the most recent load_data_with_fallback call and its outcome
    first,       \* per start_year: the table of the first successful load since start-up
    lastFetch,   \* the most recent successful fetch and whether its to_csv completed
    df,          \* the table main holds after load_data_with_fallback returned
    rank,        \* the ranking view main computed last (df_year, df_grouped, worst)
    trend        \* the trend view main computed last (df_ts, pivot_df)

vars == <<data, fetched, memo, cacheFile, call, first, lastFetch, df, rank, trend>>

(***************************************************************************)
(* Bounds of the model.                                                    *)
(***************************************************************************)
MaxRecs == 2          \* records in a response envelope
MaxCountries == 6     \* countries in a table handed to the views
MaxSelect == 2        \* countries picked in the multiselect

(***************************************************************************)
(* JSON values of a raw record.  One record shape for null, number and     *)
(* string so that values of different JSON types can be compared.          *)
(***************************************************************************)
JNull == [t |-> "null", n |-> 0, s |-> ""]
JNum(n) == [t |-> "num", n |-> n, s |-> ""]
JStr(s) == [t |-> "str", n |-> 0, s |-> s]

Years == {2000, 2001}
Digits == 0..9

\* Python truthiness of a JSON value (None, "" and 0 are falsy).
Truthy(j) ==
    CASE j.t = "null" -> FALSE
      [] j.t = "str" -> j.s # ""
      [] j.t = "num" -> j.n # 0

\* int(year): succeeds on an int and on a decimal string, raises otherwise.
IntParses(j) ==
    \/ j.t = "num"
    \/ j.t = "str" /\ \E y \in Years : ToString(y) = j.s

IntOf(j) ==
    IF j.t = "num" THEN j.n ELSE CHOOSE y \in Years : ToString(y) = j.s

\* float(value): succeeds on a number and on a numeric string, raises ValueError otherwise.
FloatParses(j) ==
    \/ j.t = "num"
    \/ j.t = "str" /\ \E v \in Digits : ToString(v) = j.s

FloatOf(j) ==
    IF j.t = "num" THEN j.n ELSE CHOOSE v \in Digits : ToString(v) = j.s

(***************************************************************************)
(* Ordering of the strings the model uses (Python compares by code point). *)
(***************************************************************************)
NameOrder == <<"Chile", "China", "Germany", "India", "Korea, Rep.", "South Africa", "Switzerland">>
IsoOrder == <<"CHE", "CHL", "CHN", "DEU", "IND", "KOR", "ZAF">>

Ord(order, s) == CHOOSE i \in 1..Len(order) : order[i] = s

(***************************************************************************)
(* Tables.  A row is one Observation; a table is a sequence of rows.       *)
(***************************************************************************)
Row(iso3, country, year, pm25) ==
    [iso3 |-> iso3, country |-> country, year |-> year, pm25 |-> pm25]

\* (country, year) of a is not after that of b.
KeyLeq(a, b) ==
    \/ Ord(NameOrder, a.country) < Ord(NameOrder, b.country)
    \/ a.country = b.country /\ a.year <= b.year

\* df.sort_values(["country", "year"]): a stable sort, rows with equal keys keep their order.
RECURSIVE InsertSorted(_, _)
InsertSorted(sorted, r) ==
    IF sorted = <<>> THEN <<r>>
    ELSE IF KeyLeq(sorted[Len(sorted)], r) THEN Append(sorted, r)
    ELSE Append(InsertSorted(SubSeq(sorted, 1, Len(sorted) - 1), r), sorted[Len(sorted)])

RECURSIVE SortRows(_)
SortRows(rows) ==
    IF rows = <<>> THEN <<>>
    ELSE InsertSorted(SortRows(SubSeq(rows, 1, Len(rows) - 1)), rows[Len(rows)])

(***************************************************************************)
(* fetch_worldbank_pm25                                                    *)
(***************************************************************************)
Ok(table) == [ok |-> TRUE, err |-> "", df |-> table]
Raise(e) == [ok |-> FALSE, err |-> e, df |-> <<>>]

\* One pass of the loop body over rec: a row appended, the record skipped, or an exception.
LoopBody(rec) ==
    IF ~rec.country.present THEN [kind |-> "raise", err |-> "KeyError", row |-> <<>>]
    ELSE IF \/ ~Truthy(rec.countryiso3code)
            \/ rec.value.t = "null"
            \/ rec.country.value.t = "null"
            \/ rec.date.t = "null"
         THEN [kind |-> "skip", err |-> "", row |-> <<>>]
    ELSE IF ~IntParses(rec.date) THEN [kind |-> "skip", err |-> "", row |-> <<>>]
    ELSE IF ~FloatParses(rec.value) THEN [kind |-> "raise", err |-> "ValueError", row |-> <<>>]
    ELSE [kind |-> "row", err |-> "",
          row |-> <<Row(rec.countryiso3code.s, rec.country.value.s,
                        IntOf(rec.date), FloatOf(rec.value))>>]

\* The for loop over data[1], from the record at index i with rows collected so far.
RECURSIVE Loop(_, _, _)
Loop(recs, i, rows) ==
    IF i > Len(recs) THEN Ok(rows)
    ELSE LET step == LoopBody(recs[i])
         IN  IF step.kind = "raise" THEN Raise(step.err)
             ELSE Loop(recs, i + 1, rows \o step.row)

\* pd.DataFrame(rows).sort_values(["country", "year"]): a frame built from no rows has
\* no columns, so the sort raises KeyError.
SortFrame(rows) ==
    IF rows = <<>> THEN Raise("KeyError") ELSE Ok(SortRows(rows))

ParseEnvelope(env) ==
    IF env.len < 2 THEN Raise("ValueError")
    ELSE LET looped == Loop(env.recs, 1, <<>>)
         IN  IF looped.ok THEN SortFrame(looped.df) ELSE looped

(***************************************************************************)
(* Response envelopes handed to the fetcher.                               *)
(***************************************************************************)
IsoValues == {JNull, JStr(""), JStr("IND")}
ValueValues == {JNull, JNum(0), JNum(3), JStr("abc")}
CountryValues ==
    {[present |-> FALSE, value |-> JNull],
     [present |-> TRUE, value |-> JNull],
     [present |-> TRUE, value |-> JStr("India")],
     [present |-> TRUE, value |-> JStr("Chile")]}
DateValues == {JNull, JStr("2000"), JStr("2001"), JStr("n/a")}

RawRecords ==
    [countryiso3code : IsoValues, value : ValueValues, country : CountryValues, date : DateValues]

RecordSeqs == UNION {[1..n -> RawRecords] : n \in 0..MaxRecs}

Envelopes ==
    {[len |-> 2, recs |-> rs] : rs \in RecordSeqs}
        \cup {[len |-> n, recs |-> <<>>] : n \in 0..1}

NoEnvelope == [len |-> 0, recs |-> <<>>]
NotFetched == [done |-> FALSE, ok |-> FALSE, err |-> "", df |-> <<>>]

(***************************************************************************)
(* The network: what requests.get, raise_for_status and resp.json yield.   *)
(***************************************************************************)
Rec(iso3, value, country, date) ==
    [countryiso3code |-> iso3, value |-> value,
     country |-> [present |-> TRUE, value |-> country], date |-> date]

IndiaRec == Rec(JStr("IND"), JNum(3), JStr("India"), JStr("2000"))
IndiaZeroRec == Rec(JStr("IND"), JNum(0), JStr("India"), JStr("2001"))
ChileRec == Rec(JStr("CHL"), JNum(3), JStr("Chile"), JStr("2000"))
BadValueRec == Rec(JStr("IND"), JStr("abc"), JStr("India"), JStr("2000"))
NoDateRec == Rec(JStr("IND"), JNum(3), JStr("India"), JNull)

LoaderEnvelopes ==
    {[len |-> 1, recs |-> <<>>],
     [len |-> 2, recs |-> <<>>],
     [len |-> 2, recs |-> <<NoDateRec>>],
     [len |-> 2, recs |-> <<IndiaRec>>],
     [len |-> 2, recs |-> <<IndiaZeroRec, ChileRec>>],
     [len |-> 2, recs |-> <<IndiaRec, BadValueRec>>]}

TransportErrors == {"ConnectionError", "HTTPError"}

NetOutcomes ==
    {[kind |-> "error", err |-> e, env |-> NoEnvelope] : e \in TransportErrors}
        \cup {[kind |-> "response", err |-> "", env |-> env] : env \in LoaderEnvelopes}

\* The body of fetch_worldbank_pm25 on one outcome of the request.
fetch_worldbank_pm25(net) ==
    IF net.kind = "error" THEN Raise(net.err) ELSE ParseEnvelope(net.env)

(***************************************************************************)
(* @st.cache_data: results are stored per start_year; exceptions are not.  *)
(***************************************************************************)
StartYears == {1990, 2000}

NoEntry == [has |-> FALSE, df |-> <<>>]
Entry(table) == [has |-> TRUE, df |-> table]
EmptyMemo == [k \in StartYears |-> NoEntry]

\* Variant: the decorator stores nothing.
CacheDataPut_NoStore(m, k, res) == m

CacheDataPut(m, k, res) ==
    IF res.ok THEN [m EXCEPT ![k] = Entry(res.df)] ELSE m

\* fetch_worldbank_pm25(start_year=k) through the decorator: the stored table when
\* there is one, else the body run on the request's outcome.
CachedFetch(m, k, net) ==
    IF m[k].has
    THEN [res |-> Ok(m[k].df), memo |-> m, net |-> FALSE]
    ELSE LET res == fetch_worldbank_pm25(net)
         IN  [res |-> res, memo |-> CacheDataPut(m, k, res), net |-> TRUE]

(***************************************************************************)
(* CACHE_FILE: df.to_csv(CACHE_FILE, index=False) and pd.read_csv.         *)
(***************************************************************************)
Header == <<"iso3", "country", "year", "pm25">>
NaStrings == {"", "NA", "N/A", "NaN", "nan", "null", "NULL", "None", "n/a", "<NA>"}

FloatRepr(v) == ToString(v) \o ".0"

CsvLine(r) == <<r.iso3, r.country, ToString(r.year), FloatRepr(r.pm25)>>

CsvLines(table) == <<Header>> \o [i \in 1..Len(table) |-> CsvLine(table[i])]

ParseStr(s) == IF s \in NaStrings THEN "NaN" ELSE s

ParseLine(line) ==
    Row(ParseStr(line[1]), ParseStr(line[2]),
        CHOOSE y \in Years : ToString(y) = line[3],
        CHOOSE v \in Digits : FloatRepr(v) = line[4])

NoFile == [exists |-> FALSE, text |-> <<>>]
File(text) == [exists |-> TRUE, text |-> text]

\* pd.read_csv: EmptyDataError on a file without a header line, else the data lines.
read_csv(file) ==
    IF file.text = <<>> THEN Raise("EmptyDataError")
    ELSE Ok([i \in 1..(Len(file.text) - 1) |-> ParseLine(file.text[i + 1])])

\* What a to_csv call can do: complete, fail at open (file untouched), or fail after
\* the file was opened for writing and `written` whole lines reached the disk.
SaveOutcomes(table) ==
    {[kind |-> "ok", written |-> Len(CsvLines(table))],
     [kind |-> "open_failed", written |-> 0]}
        \cup {[kind |-> "write_failed", written |-> k] : k \in 0..(Len(CsvLines(table)) - 1)}

\* Variant: the file is opened in append mode.
to_csv_Append(file, table, save) ==
    CASE save.kind = "ok" -> File(file.text \o CsvLines(table))
      [] save.kind = "open_failed" -> file
      [] save.kind = "write_failed" -> File(file.text \o SubSeq(CsvLines(table), 1, save.written))

to_csv(file, table, save) ==
    CASE save.kind = "ok" -> File(CsvLines(table))
      [] save.kind = "open_failed" -> file
      [] save.kind = "write_failed" -> File(SubSeq(CsvLines(table), 1, save.written))

(***************************************************************************)
(* load_data_with_fallback                                                 *)
(***************************************************************************)
Outcome(kind, table, warning, error, file) ==
    [kind |-> kind, df |-> table, warning |-> warning, error |-> error, file |-> file]

\* Variant: without a cache file an empty table is returned instead of stopping.
OnFetchFailed_ReturnsEmpty(res, file) ==
    IF file.exists
    THEN LET read == read_csv(file)
         IN  IF read.ok
             THEN Outcome("returned", read.df, res.err, "", file)
             ELSE Outcome("raised", <<>>, "", read.err, file)
    ELSE Outcome("returned", <<>>, "", res.err, file)

\* Lines 62-68: the fetch raised e.
OnFetchFailed(res, file) ==
    IF file.exists
    THEN LET read == read_csv(file)
         IN  IF read.ok
             THEN Outcome("returned", read.df, res.err, "", file)
             ELSE Outcome("raised", <<>>, "", read.err, file)
    ELSE Outcome("stopped", <<>>, "", res.err, file)

\* Variant: no inner try around to_csv, a failed write reaches the outer handler.
OnSuccess_SaveRaises(res, file, save) ==
    LET written == to_csv(file, res.df, save)
    IN  IF save.kind = "ok" THEN Outcome("returned", res.df, "", "", written)
        ELSE OnFetchFailed(Raise("OSError"), written)

\* Lines 57-61: the fetch returned; the cache write is attempted and its failure swallowed.
OnSuccess(res, file, save) ==
    Outcome("returned", res.df, "", "", to_csv(file, res.df, save))

NoRank == [valid |-> FALSE, year_select |-> 0, top_n |-> 0, df_grouped |-> <<>>, worst |-> <<>>]
NoTrend ==
    [valid |-> FALSE, countries |-> {}, range_start |-> 0, range_end |-> 0,
     df_ts |-> <<>>, pivot |-> [ok |-> FALSE, err |-> "", cells |-> {}]]

NoCall ==
    [valid |-> FALSE, key |-> 0, net |-> FALSE, fetchOk |-> FALSE, fetchErr |-> "",
     fetched |-> <<>>, save |-> "", cacheBefore |-> NoFile, firstBefore |-> NoEntry,
     kind |-> "", df |-> <<>>, warning |-> "", error |-> ""]

NoFetch == [has |-> FALSE, df |-> <<>>, saved |-> FALSE]

LoadInit ==
    /\ memo = EmptyMemo
    /\ cacheFile = NoFile
    /\ call = NoCall
    /\ first = EmptyMemo
    /\ lastFetch = NoFetch
    /\ data = NoEnvelope
    /\ fetched = NotFetched
    /\ df = <<>>
    /\ rank = NoRank
    /\ trend = NoTrend

\* One call load_data_with_fallback(start_year=k), with the outcome net of the request
\* (used only when the decorator has no stored table) and the outcome of to_csv.
load_data_with_fallback(k, net) ==
    LET f == CachedFetch(memo, k, net)
    IN  \E save \in (IF f.res.ok THEN SaveOutcomes(f.res.df) ELSE {[kind |-> "", written |-> 0]}) :
          LET out == IF f.res.ok THEN OnSuccess(f.res, cacheFile, save)
                     ELSE OnFetchFailed(f.res, cacheFile)
          IN  /\ memo' = f.memo
              /\ cacheFile' = out.file
              /\ call' = [valid |-> TRUE, key |-> k, net |-> f.net,
                          fetchOk |-> f.res.ok, fetchErr |-> f.res.err,
                          fetched |-> f.res.df, save |-> save.kind,
                          cacheBefore |-> cacheFile, firstBefore |-> first[k],
                          kind |-> out.kind, df |-> out.df,
                          warning |-> out.warning, error |-> out.error]
              /\ first' = IF f.res.ok /\ ~first[k].has
                          THEN [first EXCEPT ![k] = Entry(out.df)] ELSE first
              /\ lastFetch' = IF f.res.ok
                              THEN [has |-> TRUE, df |-> f.res.df, saved |-> save.kind = "ok"]
                              ELSE lastFetch
              /\ UNCHANGED <<data, fetched, df, rank, trend>>

Load == \E k \in StartYears, net \in NetOutcomes : load_data_with_fallback(k, net)

\* The Streamlit process is restarted: the st.cache_data store is gone, the file stays.
Restart ==
    /\ memo' = EmptyMemo
    /\ first' = EmptyMemo
    /\ call' = NoCall
    /\ UNCHANGED <<cacheFile, lastFetch, data, fetched, df, rank, trend>>

LoadNext == Load \/ Restart

LoadSpec == LoadInit /\ [][LoadNext]_vars

(***************************************************************************)
(* Properties of load_data_with_fallback, checked under LoadSpec.          *)
(***************************************************************************)
FetchFailed == call.valid /\ ~call.fetchOk

\* C1: when the fetch fails and no cache file exists, the loader shows the error naming
\* the fetch exception and stops the script; it returns no table.
C1_TerminalOnMiss ==
    (FetchFailed /\ ~call.cacheBefore.exists)
        => (call.kind = "stopped" /\ call.error = call.fetchErr /\ call.df = <<>>)

C1_Witness ==
    FetchFailed /\ ~call.cacheBefore.exists /\ call.kind = "stopped" /\ call.error = "HTTPError"

\* C2: when the fetch fails and the cache file exists, the loader returns what the file
\* holds, warns with the fetch exception, and neither raises nor stops.
C2_FallbackOnHit ==
    (FetchFailed /\ call.cacheBefore.exists)
        => /\ call.kind = "returned"
           /\ call.df = read_csv(call.cacheBefore).df
           /\ call.warning = call.fetchErr
           /\ call.error = ""

\* C3: when the fetch fails and the cache file exists but does not parse, the loader
\* shows the fatal error and stops, as it does without a file; no parse exception escapes.
C3_UnparseableIsMiss ==
    (FetchFailed /\ call.cacheBefore.exists /\ ~read_csv(call.cacheBefore).ok)
        => (call.kind = "stopped" /\ call.error = call.fetchErr)

\* C6: once a load with a given start_year has succeeded, every later load with that
\* start_year returns the same table and issues no request.
C6_Memoized ==
    (call.valid /\ call.firstBefore.has)
        => (call.kind = "returned" /\ call.df = call.firstBefore.df /\ ~call.net)

C6_Witness ==
    call.valid /\ call.firstBefore.has /\ call.kind = "returned" /\ call.df # <<>>

\* C7: when the fetch succeeds the loader returns the fetched table with no warning and
\* no error, whether to_csv completed or failed.
C7_SaveFailureIgnored ==
    (call.valid /\ call.fetchOk)
        => /\ call.kind = "returned"
           /\ call.df = call.fetched
           /\ call.warning = ""
           /\ call.error = ""

C7_Witness ==
    call.valid /\ call.fetchOk /\ call.save = "write_failed" /\ call.kind = "returned"

\* C8 as stated: every successful fetch leaves the file holding the fetched table, a
\* failed fetch leaves the file as it was, the file is never deleted, and a fallback
\* read finds the table of the most recent successful fetch.
C8_SnapshotLifecycle ==
    call.valid =>
        /\ call.fetchOk => cacheFile = File(CsvLines(call.fetched))
        /\ ~call.fetchOk => cacheFile = call.cacheBefore
        /\ call.cacheBefore.exists => cacheFile.exists
        /\ (~call.fetchOk /\ call.cacheBefore.exists)
               => (lastFetch.has /\ call.cacheBefore = File(CsvLines(lastFetch.df)))

\* C8 amended: a successful fetch whose to_csv completed leaves the file holding the
\* fetched table, a failed fetch leaves the file as it was, the file is never deleted,
\* and a fallback read that follows a successful fetch whose to_csv completed finds the
\* table of that fetch.
C8_SnapshotLifecycleWhenSaved ==
    call.valid =>
        /\ (call.fetchOk /\ call.save = "ok") => cacheFile = File(CsvLines(call.fetched))
        /\ ~call.fetchOk => cacheFile = call.cacheBefore
        /\ call.cacheBefore.exists => cacheFile.exists
        /\ (~call.fetchOk /\ call.cacheBefore.exists /\ lastFetch.saved)
               => call.cacheBefore = File(CsvLines(lastFetch.df))

C8_Witness ==
    /\ FetchFailed
    /\ call.cacheBefore.exists
    /\ lastFetch.saved
    /\ call.kind = "returned"
    /\ Len(call.df) = 2

(***************************************************************************)
(* fetch_worldbank_pm25 on every envelope of at most MaxRecs records.      *)
(***************************************************************************)
FetchInit ==
    /\ data \in Envelopes
    /\ fetched = NotFetched
    /\ memo = EmptyMemo
    /\ cacheFile = NoFile
    /\ call = NoCall
    /\ first = EmptyMemo
    /\ lastFetch = NoFetch
    /\ df = <<>>
    /\ rank = NoRank
    /\ trend = NoTrend

Fetch ==
    /\ ~fetched.done
    /\ LET res == ParseEnvelope(data)
       IN  fetched' = [done |-> TRUE, ok |-> res.ok, err |-> res.err, df |-> res.df]
    /\ UNCHANGED <<data, memo, cacheFile, call, first, lastFetch, df, rank, trend>>

FetchNext == Fetch

FetchSpec == FetchInit /\ [][FetchNext]_vars

\* A record that has every required field, an integer year and a value float accepts.
ValidRecord(rec) ==
    /\ Truthy(rec.countryiso3code)
    /\ rec.value.t # "null"
    /\ rec.country.present
    /\ rec.country.value.t # "null"
    /\ rec.date.t # "null"
    /\ IntParses(rec.date)
    /\ FloatParses(rec.value)

ValidCount(recs) == Cardinality({i \in 1..Len(recs) : ValidRecord(recs[i])})

\* C4: on a two-element envelope the fetch does not fail and returns as many rows as
\* the envelope has valid records, the other records being dropped.  Stated for the
\* envelopes that hold a valid record; those that hold none are the case of C5.
C4_InvalidRecordsDropped ==
    (fetched.done /\ data.len = 2 /\ ValidCount(data.recs) > 0)
        => (fetched.ok /\ Len(fetched.df) = ValidCount(data.recs))

\* A record the loop drops: a required field is missing or the year is no integer.
DroppedRecord(rec) ==
    /\ rec.country.present
    /\ \/ ~Truthy(rec.countryiso3code)
       \/ rec.value.t = "null"
       \/ rec.country.value.t = "null"
       \/ rec.date.t = "null"
       \/ ~IntParses(rec.date)

\* C5: on a two-element envelope that yields no valid row the fetch returns an empty
\* table and does not raise.  Stated for the envelopes with no records or with only
\* records the loop drops; records on which the loop raises are the case of C4.
C5_EmptyResultReturned ==
    (fetched.done /\ data.len = 2 /\ \A i \in 1..Len(data.recs) : DroppedRecord(data.recs[i]))
        => (fetched.ok /\ fetched.df = <<>>)

(***************************************************************************)
(* main: the tables handed to the views.  Every country has a row for 2000 *)
(* with a value chosen freely, one country may report 2000 twice, and the  *)
(* first two countries also report 2001.  The rows are sorted as the       *)
(* fetcher sorts them.                                                     *)
(***************************************************************************)
ViewCountries ==
    <<[iso3 |-> "CHE", country |-> "Switzerland"],
      [iso3 |-> "CHL", country |-> "Chile"],
      [iso3 |-> "CHN", country |-> "China"],
      [iso3 |-> "IND", country |-> "India"],
      [iso3 |-> "DEU", country |-> "Germany"],
      [iso3 |-> "KOR", country |-> "Korea, Rep."],
      [iso3 |-> "ZAF", country |-> "South Africa"]>>

PmValues == {1, 2}
DupChoices == {0, 1, MaxCountries}

CountryRow(i, year, pm25) == Row(ViewCountries[i].iso3, ViewCountries[i].country, year, pm25)

ViewTable(f, dup) ==
    SortRows([i \in 1..MaxCountries |-> CountryRow(i, 2000, f[i])]
             \o (IF dup = 0 THEN <<>> ELSE <<CountryRow(dup, 2000, 2)>>)
             \o [i \in 1..2 |-> CountryRow(i, 2001, f[i])])

ViewTables == {ViewTable(f, dup) : f \in [1..MaxCountries -> PmValues], dup \in DupChoices}

SeqRange(seq) == {seq[i] : i \in 1..Len(seq)}

\* df['year'].min() and df['year'].max()
min_year(table) == CHOOSE y \in {r.year : r \in SeqRange(table)} :
                       \A r \in SeqRange(table) : y <= r.year
max_year(table) == CHOOSE y \in {r.year : r \in SeqRange(table)} :
                       \A r \in SeqRange(table) : y >= r.year

(***************************************************************************)
(* main, lines 106-114 and 141: the ranking view.                          *)
(***************************************************************************)
TopNMin == 5
TopNMax == 30
TopNChoices == {TopNMin, TopNMax}

\* df[df['year'] == year_select]
df_year(table, year_select) == SelectSeq(table, LAMBDA r : r.year = year_select)

\* A grouped row: the mean of its pm25 values is num / den.
Group(table, key) ==
    LET members == {i \in 1..Len(table) :
                        table[i].iso3 = key.iso3 /\ table[i].country = key.country}
        Sum[S \in SUBSET members] ==
            IF S = {} THEN 0
            ELSE LET i == CHOOSE j \in S : TRUE IN table[i].pm25 + Sum[S \ {i}]
    IN  [iso3 |-> key.iso3, country |-> key.country,
         num |-> Sum[members], den |-> Cardinality(members)]

\* Group keys come out sorted by (iso3, country).
GroupKeyLess(a, b) ==
    \/ Ord(IsoOrder, a.iso3) < Ord(IsoOrder, b.iso3)
    \/ a.iso3 = b.iso3 /\ Ord(NameOrder, a.country) < Ord(NameOrder, b.country)

RECURSIVE SortedKeys(_)
SortedKeys(keys) ==
    IF keys = {} THEN <<>>
    ELSE LET k == CHOOSE a \in keys : \A b \in keys \ {a} : GroupKeyLess(a, b)
         IN  <<k>> \o SortedKeys(keys \ {k})

\* df_year.groupby(['iso3', 'country'], as_index=False)['pm25'].mean()
df_grouped(table) ==
    LET keys == SortedKeys({[iso3 |-> r.iso3, country |-> r.country] : r \in SeqRange(table)})
    IN  [i \in 1..Len(keys) |-> Group(table, keys[i])]

ValueLess(a, b) == a.num * b.den < b.num * a.den
ValueEq(a, b) == a.num * b.den = b.num * a.den

\* Variant: the sort is ascending.
RECURSIVE sort_values_Ascending(_)
sort_values_Ascending(rows) ==
    IF rows = {} THEN {<<>>}
    ELSE UNION {{<<r>> \o rest : rest \in sort_values_Ascending(rows \ {r})} :
                   r \in {a \in rows : \A b \in rows : ~ValueLess(b, a)}}

\* sort_values("value", ascending=False) with the default kind, quicksort, which is not
\* stable: every descending arrangement of the rows is a possible result.
RECURSIVE sort_values(_)
sort_values(rows) ==
    IF rows = {} THEN {<<>>}
    ELSE UNION {{<<r>> \o rest : rest \in sort_values(rows \ {r})} :
                   r \in {a \in rows : \A b \in rows : ~ValueLess(a, b)}}

Min(a, b) == IF a <= b THEN a ELSE b

\* .head(top_n)
head(seq, n) == SubSeq(seq, 1, Min(n, Len(seq)))

ViewInit ==
    /\ df \in ViewTables
    /\ rank = NoRank
    /\ trend = NoTrend
    /\ data = NoEnvelope
    /\ fetched = NotFetched
    /\ memo = EmptyMemo
    /\ cacheFile = NoFile
    /\ call = NoCall
    /\ first = EmptyMemo
    /\ lastFetch = NoFetch

\* One run of main up to the bar chart, for the chosen slider positions.  The views are
\* functions of df and the widgets, so one run per behaviour shows every result.
RenderRanking ==
    /\ ~rank.valid
    /\ \E year_select \in min_year(df)..max_year(df), top_n \in TopNChoices :
        LET grouped == df_grouped(df_year(df, year_select))
        IN  \E sorted \in sort_values(SeqRange(grouped)) :
                /\ rank' = [valid |-> TRUE, year_select |-> year_select, top_n |-> top_n,
                            df_grouped |-> grouped, worst |-> head(sorted, top_n)]
                /\ UNCHANGED <<df, trend, data, fetched, memo, cacheFile, call, first, lastFetch>>

RankNext == RenderRanking

RankSpec == ViewInit /\ [][RankNext]_vars

Position(seq, x) == CHOOSE i \in 1..Len(seq) : seq[i] = x

\* Length, descending order and being the highest-valued rows: the part of C10 that does
\* not depend on how ties are ordered.
TopRows(r) ==
    /\ Len(r.worst) = Min(r.top_n, Len(r.df_grouped))
    /\ SeqRange(r.worst) \subseteq SeqRange(r.df_grouped)
    /\ \A i, j \in 1..Len(r.worst) : i < j =>
           (r.worst[i] # r.worst[j] /\ ~ValueLess(r.worst[i], r.worst[j]))
    /\ \A g \in SeqRange(r.df_grouped) \ SeqRange(r.worst) :
           \A w \in SeqRange(r.worst) : ~ValueLess(w, g)

\* Rows of equal value appear in the order they have in the grouped table.
TiesInGroupedOrder(r) ==
    \A i, j \in 1..Len(r.worst) :
        (i < j /\ ValueEq(r.worst[i], r.worst[j]))
            => Position(r.df_grouped, r.worst[i]) < Position(r.df_grouped, r.worst[j])

\* The grouped table is ordered by country name.
GroupedByName(r) ==
    \A i, j \in 1..Len(r.df_grouped) :
        i < j => Ord(NameOrder, r.df_grouped[i].country) < Ord(NameOrder, r.df_grouped[j].country)

\* C10 as stated: min(top_n, rows) rows, value descending, the highest-valued rows, ties
\* in grouped-table order, that order being the country-name order.
C10_RankingStableTies ==
    rank.valid => (TopRows(rank) /\ TiesInGroupedOrder(rank) /\ GroupedByName(rank))

\* C10 amended: min(top_n, rows) rows, value descending, the highest-valued rows of the
\* grouped table; nothing is promised about the order of rows of equal value.
C10_RankingTopRows == rank.valid => TopRows(rank)

C10_Witness ==
    /\ rank.valid
    /\ rank.top_n < Len(rank.df_grouped)
    /\ TopRows(rank)
    /\ \E i \in 1..Len(rank.worst) : rank.worst[i].den = 2 /\ rank.worst[i].num = 3
    /\ \E i \in 1..(Len(rank.worst) - 1) : ValueLess(rank.worst[i + 1], rank.worst[i])

(***************************************************************************)
(* main, lines 172-210: the trend view.                                    *)
(***************************************************************************)
\* df[(df['country'].isin(countries)) & (df['year'].between(range_start, range_end))]
df_ts(table, countries, range_start, range_end) ==
    SelectSeq(table, LAMBDA r : /\ r.country \in countries
                                /\ range_start <= r.year
                                /\ r.year <= range_end)

\* df_ts.pivot(index='country', columns='year', values='pm25'): ValueError when two rows
\* share (country, year), else one cell per row.
pivot(table) ==
    IF \E i, j \in 1..Len(table) :
           i < j /\ table[i].country = table[j].country /\ table[i].year = table[j].year
    THEN [ok |-> FALSE, err |-> "ValueError", cells |-> {}]
    ELSE [ok |-> TRUE, err |-> "",
          cells |-> {<<r.country, r.year, r.pm25>> : r \in SeqRange(table)}]

Selections(table) ==
    {sel \in SUBSET {r.country : r \in SeqRange(table)} :
        Cardinality(sel) >= 1 /\ Cardinality(sel) <= MaxSelect}

\* One run of main from the multiselect to the pivot table.
RenderTrend ==
    /\ ~trend.valid
    /\ \E countries \in Selections(df), range_start, range_end \in min_year(df)..max_year(df) :
        /\ range_start <= range_end
        /\ LET ts == df_ts(df, countries, range_start, range_end)
           IN  trend' = [valid |-> TRUE, countries |-> countries,
                         range_start |-> range_start, range_end |-> range_end,
                         df_ts |-> ts, pivot |-> pivot(ts)]
        /\ UNCHANGED <<df, rank, data, fetched, memo, cacheFile, call, first, lastFetch>>

TrendNext == RenderTrend

TrendSpec == ViewInit /\ [][TrendNext]_vars

\* C9: for every table, every non-empty selection of countries and every year range the
\* filtered slice and its pivot are produced without an exception.
C9_TrendNeverRaises == trend.valid => trend.pivot.ok

====
